---- MODULE Spec2Model ----
(***************************************************************************)
(* The Omen engine client (clients/omen.py, class OmenClient) and the      *)
(* frontend WebSocket proxy (routers/omen.py, websocket_proxy), as a state *)
(* machine.  Every coroutine is cut at its await points: one action is the *)
(* code that runs between two consecutive awaits of one coroutine.         *)
(***************************************************************************)
EXTENDS Integers, Sequences, FiniteSets, Bags, TLC

\* ---------------------------------------------------------------- constants
MAX_SIDEBAR_INSIGHTS == 5
RECONNECT_DELAY == 5
MAX_RECONNECT_ATTEMPTS == 10
MAX_DELAY == 60
AMBIENT_TTL == 5

\* ------------------------------------------------------------------- bounds
\* connections that websockets.connect opens successfully in one behaviour
MaxConn == 2
\* ambient assistant_output frames the engine emits in one behaviour
MaxAmbient == 2
\* sidebar assistant_output frames the engine emits in one behaviour
MaxSidebar == 7
\* characters chat_response may hold
MaxChat == 3

\* largest timeout of a POST /chat request, in poll intervals
MaxTimeout == 3

\* frontend sessions that open /ws in one behaviour, each with its own client_id
MaxSess == 2
\* engine events emitted while frontend sessions are observed
MaxEvents == 2

Conns == 1..MaxConn
Sessions == 1..MaxSess
Timers == 1..MaxAmbient

VARIABLES
  state,               \* OmenClient._state : OmenState
  seen,                \* what the state observer was last handed: <<>> before
                       \* the first notification, else <<the state>>
  ws,                  \* OmenClient._ws : 0 is None, else the handle referenced
  conn,                \* every handle ever opened: "unborn" | "open" | "closed"
  recv,                \* the _receive_loop task started for each handle
  receive_task,        \* OmenClient._receive_task : 0 is None, else a handle
  rsock,               \* the handle each loop iterates: self._ws at its first step
  rtask,               \* the _reconnect task created by each handle's loop
  reconnect_task,      \* OmenClient._reconnect_task : 0 is None
  should_reconnect,    \* OmenClient._should_reconnect
  reconnect_attempts,  \* OmenClient._reconnect_attempts
  rdelay,              \* the local `delay` of each _reconnect task
  atimer,              \* every _clear_ambient_after_delay task ever created
  aleft,               \* seconds each of them still has to sleep
  ambient_clear_task,  \* OmenClient._ambient_clear_task : 0 is None
  cpc,                 \* a caller inside connect(): "idle" | "connecting"
  dpc,                 \* a caller inside disconnect(): where it is suspended
  dtask,               \* the task or handle the disconnect() caller awaits
  chat_wait,           \* the POST /chat request waiting for the answer: its
                       \* position, elapsed and timeout in poll intervals
  on_message,          \* OmenClient._on_message : 0 is None, else the closure
                       \* on_omen_message of that session
  active_connections,  \* WebSocketManager.active_connections : its client_ids
  ppc,                 \* where each websocket_proxy coroutine is suspended
  original_callback,   \* the local original_callback of each websocket_proxy
  btask,               \* broadcast_to_client tasks created and not yet run
  inbox,               \* what each frontend socket was sent, in order
  hist,                \* history: what the engine emitted, the backoff delays slept
  last                 \* what the step just taken read from the wire or returned

net == <<ws, conn>>
rx == <<recv, receive_task, rsock>>
rc == <<rtask, reconnect_task, reconnect_attempts, rdelay>>
amb == <<atimer, aleft, ambient_clear_task>>
callers == <<cpc, dpc, dtask, chat_wait>>
proxy == <<on_message, active_connections, ppc, original_callback, btask, inbox>>
vars == <<state, seen, net, rx, rc, should_reconnect, amb, callers, proxy, hist, last>>

\* ------------------------------------------------------------ OmenState
\* last_error = None
NoError == [code |-> "", message |-> ""]

OmenState ==
  [is_connected |-> FALSE, is_ready |-> FALSE, sidebar_insights |-> <<>>,
   ambient_message |-> 0, chat_response |-> <<>>, is_streaming |-> FALSE,
   last_error |-> NoError]

\* the step just taken read no frame and returned to no caller
Silent == [op |-> "none"]

\* whether a state observer was passed to the constructor
on_state_change == TRUE

\* mutant of update_state: the observer is called before the fields are set
update_state_notifies_first(s) ==
  /\ state' = s
  /\ seen' = IF on_state_change THEN <<state>> ELSE seen

\* _update_state: the fields are set, then the observer is handed the state
update_state(s) ==
  /\ state' = s
  /\ seen' = IF on_state_change THEN <<s>> ELSE seen

\* no POST /chat request is waiting
NoWait == [pc |-> "idle", elapsed |-> 0, timeout |-> 0]

Init ==
  /\ state = OmenState
  /\ ws = 0
  /\ conn = [i \in Conns |-> "unborn"]
  /\ recv = [i \in Conns |-> "none"]
  /\ receive_task = 0
  /\ rsock = [i \in Conns |-> 0]
  /\ rtask = [i \in Conns |-> "none"]
  /\ reconnect_task = 0
  /\ should_reconnect = TRUE
  /\ reconnect_attempts = 0
  /\ rdelay = [i \in Conns |-> 0]
  /\ atimer = [t \in Timers |-> "none"]
  /\ aleft = [t \in Timers |-> 0]
  /\ ambient_clear_task = 0
  /\ cpc = "idle"
  /\ dpc = "idle"
  /\ dtask = 0
  /\ chat_wait = NoWait
  /\ seen = <<>>
  /\ on_message = 0
  /\ active_connections = {}
  /\ ppc = [k \in Sessions |-> "idle"]
  /\ original_callback = [k \in Sessions |-> 0]
  /\ btask = EmptyBag
  /\ inbox = [k \in Sessions |-> <<>>]
  /\ hist = [sidebar_log |-> <<>>, sidebar_count |-> 0, audience |-> <<>>,
             chat_phase |-> "none", chat_text |-> <<>>, torn_down |-> FALSE,
             delays |-> <<>>, age |-> 0]
  /\ last = Silent

\* ------------------------------------------------------------ helpers
Min(a, b) == IF a <= b THEN a ELSE b

RECURSIVE Pow2(_)
Pow2(n) == IF n = 0 THEN 1 ELSE 2 * Pow2(n - 1)

\* mutant of Backoff: the delay is never capped
BackoffUncapped(attempts) == RECONNECT_DELAY * Pow2(attempts - 1)

\* delay = min(RECONNECT_DELAY * 2 ** (attempts - 1), 60)
Backoff(attempts) == Min(RECONNECT_DELAY * Pow2(attempts - 1), MAX_DELAY)

\* the handle the next successful websockets.connect returns
FreshConn == CHOOSE i \in Conns : conn[i] = "unborn" /\ \A j \in 1..(i - 1) : conn[j] # "unborn"
CanOpen == \E i \in Conns : conn[i] = "unborn"

\* the next _clear_ambient_after_delay task asyncio.create_task returns
FreshTimer == CHOOSE t \in Timers : atimer[t] = "none" /\ \A u \in 1..(t - 1) : atimer[u] # "none"
CanArm == \E t \in Timers : atimer[t] = "none"

\* ------------------------------------------------------------ inbound frames
Chunks == {<<>>, <<"a">>, <<"b">>}
Errors == {[code |-> "model_unavailable", message |-> "Model not ready"],
           [code |-> "internal", message |-> "Engine failure"]}

StatusFrames ==
  {[type |-> "engine_status", fast_model_ready |-> a, quality_model_ready |-> b] :
     a \in BOOLEAN, b \in BOOLEAN}
\* the engine stamps every insight; the stamp stands for its whole content
SidebarFrames ==
  IF hist.sidebar_count < MaxSidebar
    THEN {[type |-> "assistant_output", target |-> "sidebar", content |-> hist.sidebar_count + 1]}
    ELSE {}
AmbientFrames ==
  IF CanArm
    THEN {[type |-> "assistant_output", target |-> "ambient", content |-> FreshTimer]}
    ELSE {}
ChatFrames ==
  {[type |-> "assistant_output", target |-> "chat", content |-> c] :
     c \in {c \in Chunks : Len(state.chat_response) + Len(c) <= MaxChat}}
ChunkFrames ==
  {[type |-> "stream_chunk", content |-> c, done |-> d] :
     c \in {c \in Chunks : Len(state.chat_response) + Len(c) <= MaxChat}, d \in BOOLEAN}
ErrorFrames == {[type |-> "error", code |-> e.code, message |-> e.message] : e \in Errors}
\* the sidebar insights the engine emits while frontend sessions are observed
EventFrames ==
  IF hist.sidebar_count < MaxEvents
    THEN {[type |-> "assistant_output", target |-> "sidebar", content |-> hist.sidebar_count + 1]}
    ELSE {}
\* not JSON; JSON of a type the client does not know; a known type whose
\* fields the pydantic model rejects
JunkFrames == {[type |-> "invalid_json"], [type |-> "unknown"], [type |-> "malformed"]}

\* ------------------------------------------------------------ handlers
\* mutant of handle_engine_status: one ready model is enough
handle_engine_status_either(s, f) ==
  [s EXCEPT !.is_ready = f.fast_model_ready \/ f.quality_model_ready]

handle_engine_status(s, f) ==
  [s EXCEPT !.is_ready = f.fast_model_ready /\ f.quality_model_ready]

\* mutant of TrimInsights: keeps the head of the list, insights[:MAX_SIDEBAR_INSIGHTS]
TrimInsightsKeepOldest(insights) ==
  IF Len(insights) > MAX_SIDEBAR_INSIGHTS
    THEN SubSeq(insights, 1, MAX_SIDEBAR_INSIGHTS)
    ELSE insights

\* insights[-MAX_SIDEBAR_INSIGHTS:] when the list is longer than the maximum
TrimInsights(insights) ==
  IF Len(insights) > MAX_SIDEBAR_INSIGHTS
    THEN SubSeq(insights, Len(insights) - MAX_SIDEBAR_INSIGHTS + 1, Len(insights))
    ELSE insights

handle_sidebar_output(s, f) ==
  [s EXCEPT !.sidebar_insights = TrimInsights(Append(@, f.content))]

handle_ambient_output(s, f) == [s EXCEPT !.ambient_message = f.content]

handle_chat_output(s, f) == [s EXCEPT !.chat_response = @ \o f.content]

\* mutant of handle_stream_chunk: the chunk replaces the response
handle_stream_chunk_replace(s, f) ==
  [s EXCEPT !.chat_response = f.content, !.is_streaming = ~f.done]

handle_stream_chunk(s, f) ==
  [s EXCEPT !.chat_response = @ \o f.content, !.is_streaming = ~f.done]

\* mutant of handle_error: is_streaming is left as it was
handle_error_keeps_streaming(s, f) ==
  [s EXCEPT !.last_error = [code |-> f.code, message |-> f.message]]

handle_error(s, f) ==
  [s EXCEPT !.last_error = [code |-> f.code, message |-> f.message],
            !.is_streaming = FALSE]

\* mutant of handle_message: a frame of an unknown type resets the state
handle_message_resets_on_unknown(s, f) ==
  CASE f.type = "engine_status" -> handle_engine_status(s, f)
    [] f.type = "assistant_output" /\ f.target = "sidebar" -> handle_sidebar_output(s, f)
    [] f.type = "assistant_output" /\ f.target = "ambient" -> handle_ambient_output(s, f)
    [] f.type = "assistant_output" /\ f.target = "chat" -> handle_chat_output(s, f)
    [] f.type = "stream_chunk" -> handle_stream_chunk(s, f)
    [] f.type = "error" -> handle_error(s, f)
    [] f.type = "invalid_json" -> s
    [] OTHER -> [OmenState EXCEPT !.is_connected = s.is_connected]

\* the OmenState that _handle_message leaves for a frame that raises nothing
handle_message(s, f) ==
  CASE f.type = "engine_status" -> handle_engine_status(s, f)
    [] f.type = "assistant_output" /\ f.target = "sidebar" -> handle_sidebar_output(s, f)
    [] f.type = "assistant_output" /\ f.target = "ambient" -> handle_ambient_output(s, f)
    [] f.type = "assistant_output" /\ f.target = "chat" -> handle_chat_output(s, f)
    [] f.type = "stream_chunk" -> handle_stream_chunk(s, f)
    [] f.type = "error" -> handle_error(s, f)
    [] OTHER -> s

\* mutant of arm_ambient_timer: the task held is not cancelled
arm_ambient_timer_no_cancel ==
  /\ atimer' = [atimer EXCEPT ![FreshTimer] = "pending"]
  /\ aleft' = [aleft EXCEPT ![FreshTimer] = AMBIENT_TTL]
  /\ ambient_clear_task' = FreshTimer

\* the ambient branch of _handle_assistant_output: cancel the task held, if
\* any, and hold a new one
arm_ambient_timer ==
  /\ atimer' = [t \in Timers |->
                  IF t = FreshTimer THEN "pending"
                  ELSE IF t = ambient_clear_task /\ atimer[t] = "pending" THEN "cancelled"
                  ELSE atimer[t]]
  /\ aleft' = [aleft EXCEPT ![FreshTimer] = AMBIENT_TTL]
  /\ ambient_clear_task' = FreshTimer

\* ------------------------------------------------------------ history
\* the frontend sessions inside the receive loop of websocket_proxy
Attached == {k \in Sessions : ppc[k] = "attached"}

hist_after_frame(f) ==
  CASE f.type = "assistant_output" /\ f.target = "ambient" -> [hist EXCEPT !.age = 0]
    [] f.type = "assistant_output" /\ f.target = "sidebar" ->
         [hist EXCEPT !.sidebar_log = Append(@, f.content), !.sidebar_count = @ + 1,
                      !.audience = Append(@, Attached)]
    [] f.type = "stream_chunk" /\ hist.chat_phase = "streaming" ->
         [hist EXCEPT !.chat_text = @ \o f.content,
                      !.chat_phase = IF f.done THEN "done" ELSE "streaming"]
    [] f.type = "stream_chunk" /\ hist.chat_phase # "streaming" ->
         [hist EXCEPT !.chat_phase = "none"]
    [] f.type = "assistant_output" /\ f.target = "chat" -> [hist EXCEPT !.chat_phase = "none"]
    [] f.type = "error" -> [hist EXCEPT !.chat_phase = "none"]
    [] OTHER -> hist

\* ------------------------------------------------------------ connect()
\* try-branch of connect() after websockets.connect returned handle i
\* mutant of connect_ok: the attempt counter is left as it was
connect_ok_keeps_attempts(i) ==
  /\ ws' = i
  /\ conn' = [conn EXCEPT ![i] = "open"]
  /\ update_state([state EXCEPT !.is_connected = TRUE])
  /\ reconnect_attempts' = reconnect_attempts
  /\ recv' = [recv EXCEPT ![i] = "new"]
  /\ receive_task' = i

connect_ok(i) ==
  /\ ws' = i
  /\ conn' = [conn EXCEPT ![i] = "open"]
  /\ update_state([state EXCEPT !.is_connected = TRUE])
  /\ reconnect_attempts' = 0
  /\ recv' = [recv EXCEPT ![i] = "new"]
  /\ receive_task' = i

\* except-branch of connect(): websockets.connect raised
connect_failed(s) == [s EXCEPT !.is_connected = FALSE, !.is_ready = FALSE]

\* a caller enters connect() and suspends in websockets.connect
ConnectCall ==
  /\ cpc = "idle"
  /\ cpc' = "connecting"
  /\ hist' = [hist EXCEPT !.torn_down = FALSE]
  /\ last' = Silent
  /\ UNCHANGED <<state, seen, net, rx, rc, should_reconnect, amb, dpc, dtask, chat_wait, proxy>>

ConnectOk ==
  /\ cpc = "connecting"
  /\ CanOpen
  /\ connect_ok(FreshConn)
  /\ cpc' = "idle"
  /\ hist' = [hist EXCEPT !.delays = <<>>, !.torn_down = FALSE]
  /\ last' = [op |-> "connect", value |-> TRUE]
  /\ UNCHANGED <<rsock, rtask, reconnect_task, rdelay, should_reconnect, amb, dpc, dtask, chat_wait, proxy>>

\* mutant of ConnectFail: a failed connect() hands over to a reconnect task
ConnectFailRetries ==
  /\ cpc = "connecting"
  /\ update_state(connect_failed(state))
  /\ cpc' = "idle"
  /\ rtask' = [rtask EXCEPT ![1] = "new"]
  /\ reconnect_task' = 1
  /\ last' = [op |-> "connect", value |-> FALSE]
  /\ UNCHANGED <<net, rx, reconnect_attempts, rdelay, should_reconnect, amb, dpc, dtask, chat_wait,
                 hist, proxy>>

ConnectFail ==
  /\ cpc = "connecting"
  /\ update_state(connect_failed(state))
  /\ cpc' = "idle"
  /\ last' = [op |-> "connect", value |-> FALSE]
  /\ UNCHANGED <<net, rx, rc, should_reconnect, amb, dpc, dtask, chat_wait, hist, proxy>>

\* ------------------------------------------------------------ _receive_loop
\* mutant of receive_finally: the reconnect task is created whatever
\* _should_reconnect holds
receive_finally_always_reconnects(i) ==
  /\ update_state([state EXCEPT !.is_connected = FALSE, !.is_ready = FALSE])
  /\ recv' = [recv EXCEPT ![i] = "done"]
  /\ rtask' = [rtask EXCEPT ![i] = "new"]
  /\ reconnect_task' = i

\* finally-block of _receive_loop, run by the loop of handle i
receive_finally(i) ==
  /\ update_state([state EXCEPT !.is_connected = FALSE, !.is_ready = FALSE])
  /\ recv' = [recv EXCEPT ![i] = "done"]
  /\ IF should_reconnect
       THEN /\ rtask' = [rtask EXCEPT ![i] = "new"]
            /\ reconnect_task' = i
       ELSE UNCHANGED <<rtask, reconnect_task>>

\* the task created by connect() runs for the first time: it evaluates
\* self._ws and suspends in `async for message in self._ws`; iterating None
\* raises, which ends the loop through `except Exception` and finally
RecvStart(i) ==
  /\ recv[i] = "new"
  /\ IF ws = 0
       THEN /\ receive_finally(i)
            /\ rsock' = rsock
       ELSE /\ recv' = [recv EXCEPT ![i] = "run"]
            /\ rsock' = [rsock EXCEPT ![i] = ws]
            /\ UNCHANGED <<state, seen, rtask, reconnect_task>>
  /\ last' = Silent
  /\ UNCHANGED <<net, receive_task, reconnect_attempts, rdelay, should_reconnect,
                 amb, callers, hist, proxy>>

\* `if self._on_message: self._on_message(data)`: the closure of a frontend
\* session creates a broadcast_to_client task for that session
on_message_called(f) ==
  IF f.type # "invalid_json" /\ on_message # 0
    THEN btask (+) SetToBag({[client_id |-> on_message, message |-> f]})
    ELSE btask

\* the loop of handle i reads frame f and runs _handle_message on it; a
\* handler that raises ends the loop through `except Exception` and finally
RecvFrame(i, f) ==
  /\ recv[i] = "run"
  /\ conn[rsock[i]] = "open"
  /\ IF f.type = "malformed"
       THEN /\ receive_finally(i)
            /\ UNCHANGED amb
       ELSE /\ IF f.type \in {"invalid_json", "unknown"}
                 THEN /\ state' = handle_message(state, f)
                      /\ seen' = seen
                 ELSE update_state(handle_message(state, f))
            /\ IF f.type = "assistant_output" /\ f.target = "ambient"
                 THEN arm_ambient_timer
                 ELSE UNCHANGED amb
            /\ UNCHANGED <<recv, rtask, reconnect_task>>
  /\ hist' = hist_after_frame(f)
  /\ btask' = on_message_called(f)
  /\ last' = [op |-> "frame", conn |-> i, frame |-> f]
  /\ UNCHANGED <<net, receive_task, rsock, reconnect_attempts, rdelay, should_reconnect,
                 callers, on_message, active_connections, ppc, original_callback, inbox>>

\* the peer or the network ends the stream of handle i
ConnLost(i) ==
  /\ conn[i] = "open"
  /\ conn' = [conn EXCEPT ![i] = "closed"]
  /\ last' = Silent
  /\ UNCHANGED <<state, seen, ws, rx, rc, should_reconnect, amb, callers, hist, proxy>>

\* the loop's read raises ConnectionClosed: except-branch, then finally
RecvClosed(i) ==
  /\ recv[i] = "run"
  /\ conn[rsock[i]] = "closed"
  /\ receive_finally(i)
  /\ last' = [op |-> "closed", conn |-> i]
  /\ UNCHANGED <<net, receive_task, rsock, reconnect_attempts, rdelay, should_reconnect,
                 amb, callers, hist, proxy>>

\* two loops iterate one handle: the read of the one that is not first raises,
\* which ends it through `except Exception` and finally
RecvConcurrent(i) ==
  /\ recv[i] = "run"
  /\ \E j \in Conns \ {i} : recv[j] = "run" /\ rsock[j] = rsock[i]
  /\ receive_finally(i)
  /\ last' = Silent
  /\ UNCHANGED <<net, receive_task, rsock, reconnect_attempts, rdelay, should_reconnect,
                 amb, callers, hist, proxy>>

\* CancelledError is thrown into the loop at its await: finally runs; a task
\* cancelled before its first step never enters the try statement
RecvCancelled(i) ==
  /\ recv[i] \in {"cancel", "cancel_new"}
  /\ IF recv[i] = "cancel"
       THEN receive_finally(i)
       ELSE /\ recv' = [recv EXCEPT ![i] = "done"]
            /\ UNCHANGED <<state, seen, rtask, reconnect_task>>
  /\ last' = Silent
  /\ UNCHANGED <<net, receive_task, rsock, reconnect_attempts, rdelay, should_reconnect,
                 amb, callers, hist, proxy>>

\* ------------------------------------------------------------ _reconnect
\* one evaluation of the while-condition of _reconnect and, when it holds,
\* the loop body up to `await asyncio.sleep(delay)`
reconnect_iterate(i, attempts) ==
  IF should_reconnect /\ attempts < MAX_RECONNECT_ATTEMPTS
    THEN /\ reconnect_attempts' = attempts + 1
         /\ rdelay' = [rdelay EXCEPT ![i] = Backoff(attempts + 1)]
         /\ rtask' = [rtask EXCEPT ![i] = "sleep"]
         /\ hist' = [hist EXCEPT !.delays = Append(@, Backoff(attempts + 1))]
    ELSE /\ reconnect_attempts' = attempts
         /\ rdelay' = [rdelay EXCEPT ![i] = 0]
         /\ rtask' = [rtask EXCEPT ![i] = "done"]
         /\ hist' = hist

ReconnectStart(i) ==
  /\ rtask[i] = "new"
  /\ reconnect_iterate(i, reconnect_attempts)
  /\ last' = Silent
  /\ UNCHANGED <<state, seen, net, rx, reconnect_task, should_reconnect, amb, callers, proxy>>

\* the sleep elapses; the task calls connect() and suspends in websockets.connect
ReconnectWake(i) ==
  /\ rtask[i] = "sleep"
  /\ rtask' = [rtask EXCEPT ![i] = "connecting"]
  /\ last' = Silent
  /\ UNCHANGED <<state, seen, net, rx, reconnect_task, reconnect_attempts, rdelay,
                 should_reconnect, amb, callers, hist, proxy>>

\* connect() returned True inside _reconnect: the task returns
ReconnectOk(i) ==
  /\ rtask[i] = "connecting"
  /\ CanOpen
  /\ connect_ok(FreshConn)
  /\ rtask' = [rtask EXCEPT ![i] = "done"]
  /\ rdelay' = [rdelay EXCEPT ![i] = 0]
  /\ hist' = [hist EXCEPT !.delays = <<>>, !.torn_down = FALSE]
  /\ last' = Silent
  /\ UNCHANGED <<rsock, reconnect_task, should_reconnect, amb, callers, proxy>>

\* connect() returned False inside _reconnect: the while-loop goes round
ReconnectFail(i) ==
  /\ rtask[i] = "connecting"
  /\ update_state(connect_failed(state))
  /\ reconnect_iterate(i, reconnect_attempts)
  /\ last' = Silent
  /\ UNCHANGED <<net, rx, reconnect_task, should_reconnect, amb, callers, proxy>>

\* CancelledError is thrown into _reconnect at its await
ReconnectCancelled(i) ==
  /\ rtask[i] = "cancel"
  /\ rtask' = [rtask EXCEPT ![i] = "done"]
  /\ rdelay' = [rdelay EXCEPT ![i] = 0]
  /\ last' = Silent
  /\ UNCHANGED <<state, seen, net, rx, reconnect_task, reconnect_attempts,
                 should_reconnect, amb, callers, hist, proxy>>

\* ------------------------------------------------------------ disconnect()
LiveRecv == receive_task # 0 /\ recv[receive_task] \in {"new", "run"}
LiveReconnect == reconnect_task # 0 /\ rtask[reconnect_task] \in {"new", "sleep", "connecting"}

\* disconnect() from its k-th `if` onwards, up to the next await that suspends
\* (awaiting a finished task does not suspend) or to its return
disconnect_from(k) ==
  IF k <= 1 /\ LiveRecv
    THEN /\ recv' = [recv EXCEPT ![receive_task] =
                       IF recv[receive_task] = "new" THEN "cancel_new" ELSE "cancel"]
         /\ dpc' = "await_receive"
         /\ dtask' = receive_task
         /\ hist' = hist
         /\ last' = Silent
         /\ UNCHANGED <<state, seen, ws, conn, rtask>>
  ELSE IF k <= 2 /\ LiveReconnect
    THEN /\ rtask' = [rtask EXCEPT ![reconnect_task] = "cancel"]
         /\ dpc' = "await_reconnect"
         /\ dtask' = reconnect_task
         /\ hist' = hist
         /\ last' = Silent
         /\ UNCHANGED <<state, seen, ws, conn, recv>>
  ELSE IF ws # 0
    THEN /\ conn' = [conn EXCEPT ![ws] = "closed"]
         /\ dpc' = "closing"
         /\ dtask' = ws
         /\ hist' = hist
         /\ last' = Silent
         /\ UNCHANGED <<state, seen, ws, recv, rtask>>
  ELSE /\ update_state([state EXCEPT !.is_connected = FALSE, !.is_ready = FALSE])
       /\ dpc' = "idle"
       /\ dtask' = 0
       /\ hist' = [hist EXCEPT !.torn_down = TRUE]
       /\ last' = [op |-> "disconnect", again |-> last.op = "disconnect"]
       /\ UNCHANGED <<ws, conn, recv, rtask>>

DisconnectCall ==
  /\ dpc = "idle"
  /\ should_reconnect' = FALSE
  /\ disconnect_from(1)
  /\ UNCHANGED <<receive_task, rsock, reconnect_task, reconnect_attempts, rdelay, amb, cpc, chat_wait, proxy>>

DisconnectReceiveAwaited ==
  /\ dpc = "await_receive"
  /\ recv[dtask] = "done"
  /\ disconnect_from(2)
  /\ UNCHANGED <<receive_task, rsock, reconnect_task, reconnect_attempts, rdelay,
                 should_reconnect, amb, cpc, chat_wait, proxy>>

DisconnectReconnectAwaited ==
  /\ dpc = "await_reconnect"
  /\ rtask[dtask] = "done"
  /\ disconnect_from(3)
  /\ UNCHANGED <<receive_task, rsock, reconnect_task, reconnect_attempts, rdelay,
                 should_reconnect, amb, cpc, chat_wait, proxy>>

\* mutant of DisconnectClosed: self._ws keeps the closed handle
DisconnectClosedKeepsHandle ==
  /\ dpc = "closing"
  /\ ws' = ws
  /\ update_state([state EXCEPT !.is_connected = FALSE, !.is_ready = FALSE])
  /\ dpc' = "idle"
  /\ dtask' = 0
  /\ hist' = [hist EXCEPT !.torn_down = TRUE]
  /\ last' = [op |-> "disconnect", again |-> FALSE]
  /\ UNCHANGED <<conn, rx, rc, should_reconnect, amb, cpc, chat_wait, proxy>>

\* `await self._ws.close()` returned: self._ws = None, then _update_state
DisconnectClosed ==
  /\ dpc = "closing"
  /\ ws' = 0
  /\ update_state([state EXCEPT !.is_connected = FALSE, !.is_ready = FALSE])
  /\ dpc' = "idle"
  /\ dtask' = 0
  /\ hist' = [hist EXCEPT !.torn_down = TRUE]
  /\ last' = [op |-> "disconnect", again |-> FALSE]
  /\ UNCHANGED <<conn, rx, rc, should_reconnect, amb, cpc, chat_wait, proxy>>

\* ------------------------------------------------------------ send_context / send_chat
\* self._ws.send on the handle held: raises ConnectionClosed once it is closed
SendSucceeds == ws # 0 /\ conn[ws] = "open"

send_context_returns == IF ws = 0 THEN FALSE ELSE SendSucceeds

SendContext ==
  /\ last' = [op |-> "send_context", value |-> send_context_returns]
  /\ UNCHANGED <<state, seen, net, rx, rc, should_reconnect, amb, callers, hist, proxy>>

send_chat_returns == IF ws = 0 THEN FALSE ELSE SendSucceeds

send_chat_state(s) ==
  IF ws = 0 THEN s
  ELSE IF SendSucceeds THEN [s EXCEPT !.chat_response = <<>>, !.is_streaming = TRUE]
  ELSE [s EXCEPT !.chat_response = <<>>, !.is_streaming = FALSE]

SendChat ==
  /\ IF ws = 0 THEN UNCHANGED <<state, seen>> ELSE update_state(send_chat_state(state))
  /\ hist' = IF ws = 0 THEN hist
             ELSE [hist EXCEPT !.chat_text = <<>>,
                               !.chat_phase = IF SendSucceeds THEN "streaming" ELSE "none"]
  /\ last' = [op |-> "send_chat", value |-> send_chat_returns]
  /\ UNCHANGED <<net, rx, rc, should_reconnect, amb, callers, proxy>>

\* ------------------------------------------------------------ POST /chat
\* timeouts a request passes, in poll intervals (the query parameter has no
\* lower bound)
Timeouts == -1 .. MaxTimeout

\* the ChatResponse the endpoint returns
ChatResponse(s, is_complete, elapsed, timeout) ==
  [op |-> "chat_reply", response |-> s.chat_response, is_complete |-> is_complete,
   elapsed |-> elapsed, timeout |-> timeout]

\* send_chat_message up to its first sleep: send_chat, HTTP 503 when it
\* returned False, else the first test of the polling loop
ChatEndpointCall(timeout) ==
  /\ chat_wait.pc = "idle"
  /\ IF ws = 0 THEN UNCHANGED <<state, seen>> ELSE update_state(send_chat_state(state))
  /\ hist' = IF ws = 0 THEN hist
             ELSE [hist EXCEPT !.chat_text = <<>>,
                               !.chat_phase = IF SendSucceeds THEN "streaming" ELSE "none"]
  /\ IF ~send_chat_returns
       THEN /\ last' = [op |-> "chat_raise", status_code |-> 503]
            /\ chat_wait' = NoWait
     ELSE IF 0 < timeout
       THEN /\ last' = [op |-> "send_chat", value |-> TRUE]
            /\ chat_wait' = [pc |-> "sleeping", elapsed |-> 0, timeout |-> timeout]
     ELSE /\ last' = ChatResponse(state', FALSE, 0, timeout)
          /\ chat_wait' = NoWait
  /\ UNCHANGED <<net, rx, rc, should_reconnect, amb, cpc, dpc, dtask, proxy>>

\* mutant of ChatPoll: the elapsed time is not advanced
ChatPollStuck ==
  /\ chat_wait.pc = "sleeping"
  /\ LET elapsed == chat_wait.elapsed IN
     IF ~state.is_streaming
       THEN /\ last' = ChatResponse(state, TRUE, elapsed, chat_wait.timeout)
            /\ chat_wait' = NoWait
     ELSE IF elapsed < chat_wait.timeout
       THEN /\ last' = Silent
            /\ chat_wait' = [chat_wait EXCEPT !.elapsed = elapsed]
     ELSE /\ last' = ChatResponse(state, FALSE, elapsed, chat_wait.timeout)
          /\ chat_wait' = NoWait
  /\ UNCHANGED <<state, seen, net, rx, rc, should_reconnect, amb, cpc, dpc, dtask, proxy, hist>>

\* asyncio.sleep(poll_interval) returned: one iteration of the polling loop
\* and, when the loop ends, the return after it
ChatPoll ==
  /\ chat_wait.pc = "sleeping"
  /\ LET elapsed == chat_wait.elapsed + 1 IN
     IF ~state.is_streaming
       THEN /\ last' = ChatResponse(state, TRUE, elapsed, chat_wait.timeout)
            /\ chat_wait' = NoWait
     ELSE IF elapsed < chat_wait.timeout
       THEN /\ last' = Silent
            /\ chat_wait' = [chat_wait EXCEPT !.elapsed = elapsed]
     ELSE /\ last' = ChatResponse(state, FALSE, elapsed, chat_wait.timeout)
          /\ chat_wait' = NoWait
  /\ UNCHANGED <<state, seen, net, rx, rc, should_reconnect, amb, cpc, dpc, dtask, proxy, hist>>

\* ------------------------------------------------------------ clear_*
\* mutant of ClearSidebar: the ambient message is dropped as well
ClearSidebarAndAmbient ==
  /\ update_state([state EXCEPT !.sidebar_insights = <<>>, !.ambient_message = 0])
  /\ hist' = [hist EXCEPT !.sidebar_log = <<>>]
  /\ last' = [op |-> "clear_sidebar"]
  /\ UNCHANGED <<net, rx, rc, should_reconnect, amb, callers, proxy>>

ClearSidebar ==
  /\ update_state([state EXCEPT !.sidebar_insights = <<>>])
  /\ hist' = [hist EXCEPT !.sidebar_log = <<>>]
  /\ last' = [op |-> "clear_sidebar"]
  /\ UNCHANGED <<net, rx, rc, should_reconnect, amb, callers, proxy>>

ClearAmbient ==
  /\ update_state([state EXCEPT !.ambient_message = 0])
  /\ last' = [op |-> "clear_ambient"]
  /\ UNCHANGED <<net, rx, rc, should_reconnect, amb, callers, hist, proxy>>

\* ------------------------------------------------------------ _clear_ambient_after_delay
\* one second passes; a sleep that has elapsed wakes before the next second
Tick ==
  /\ \A t \in Timers : atimer[t] = "pending" => aleft[t] > 0
  /\ (\E t \in Timers : atimer[t] = "pending") \/ hist.age <= AMBIENT_TTL
  /\ aleft' = [t \in Timers |-> IF atimer[t] = "pending" THEN aleft[t] - 1 ELSE aleft[t]]
  /\ hist' = [hist EXCEPT !.age = Min(@ + 1, AMBIENT_TTL + 1)]
  /\ last' = Silent
  /\ UNCHANGED <<state, seen, net, rx, rc, should_reconnect, atimer, ambient_clear_task,
                 callers, proxy>>

\* asyncio.sleep(5) of task t returned: _update_state(ambient_message=None)
AmbientFire(t) ==
  /\ atimer[t] = "pending"
  /\ aleft[t] = 0
  /\ atimer' = [atimer EXCEPT ![t] = "done"]
  /\ update_state([state EXCEPT !.ambient_message = 0])
  /\ last' = Silent
  /\ UNCHANGED <<net, rx, rc, should_reconnect, aleft, ambient_clear_task, callers, hist, proxy>>

\* ------------------------------------------------------------ websocket_proxy
\* mutant of Greeting: the session is told the engine is ready
GreetingAlwaysReady == [type |-> "engine_status", fast_model_ready |-> TRUE,
                        quality_model_ready |-> TRUE]

\* the engine_status frame websocket_proxy sends a session that attaches
Greeting == [type |-> "engine_status", fast_model_ready |-> state.is_ready,
             quality_model_ready |-> state.is_ready]

\* frontend k opens /ws: the endpoint closes it with 4003 unless the client is
\* connected, else it suspends in websocket.accept()
ProxyOpen(k) ==
  /\ ppc[k] = "idle"
  /\ ppc' = [ppc EXCEPT ![k] = IF state.is_connected THEN "accepting" ELSE "rejected"]
  /\ last' = Silent
  /\ UNCHANGED <<state, seen, net, rx, rc, should_reconnect, amb, callers, on_message,
                 active_connections, original_callback, btask, inbox, hist>>

\* accept() returned: ws_manager registers the session, the endpoint sends
\* the greeting and suspends in send_json
ProxyAccepted(k) ==
  /\ ppc[k] = "accepting"
  /\ active_connections' = active_connections \cup {k}
  /\ inbox' = [inbox EXCEPT ![k] = Append(@, Greeting)]
  /\ ppc' = [ppc EXCEPT ![k] = "greeting"]
  /\ last' = Silent
  /\ UNCHANGED <<state, seen, net, rx, rc, should_reconnect, amb, callers, on_message,
                 original_callback, btask, hist>>

\* send_json returned: the endpoint saves the client's callback, installs its
\* own and suspends in websocket.receive_json()
ProxyAttached(k) ==
  /\ ppc[k] = "greeting"
  /\ original_callback' = [original_callback EXCEPT ![k] = on_message]
  /\ on_message' = k
  /\ ppc' = [ppc EXCEPT ![k] = "attached"]
  /\ last' = Silent
  /\ UNCHANGED <<state, seen, net, rx, rc, should_reconnect, amb, callers,
                 active_connections, btask, inbox, hist>>

\* receive_json raised WebSocketDisconnect: the finally-block of the endpoint
ProxyDetach(k) ==
  /\ ppc[k] = "attached"
  /\ active_connections' = active_connections \ {k}
  /\ on_message' = original_callback[k]
  /\ ppc' = [ppc EXCEPT ![k] = "closed"]
  /\ last' = Silent
  /\ UNCHANGED <<state, seen, net, rx, rc, should_reconnect, amb, callers,
                 original_callback, btask, inbox, hist>>

\* a broadcast_to_client task runs: it sends to the session when the manager
\* still holds it
BroadcastRun(b) ==
  /\ BagIn(b, btask)
  /\ btask' = btask (-) SetToBag({b})
  /\ inbox' = IF b.client_id \in active_connections
                THEN [inbox EXCEPT ![b.client_id] = Append(@, b.message)]
                ELSE inbox
  /\ last' = Silent
  /\ UNCHANGED <<state, seen, net, rx, rc, should_reconnect, amb, callers, on_message,
                 active_connections, ppc, original_callback, hist>>

\* ------------------------------------------------------------ outbound frames
\* Python's None, which the JSON encoder writes as null
None == "None"

\* the wall clock read when a message is built
Now == "now"

\* the values of the OmenScreen enumeration
OmenScreens == {"home", "explore", "poi_detail", "itinerary", "compare", "booking", "chat"}

\* OmenScreen(v): the member whose value is v, ValueError when there is none
OmenScreen(v) == IF v \in OmenScreens THEN v ELSE "ValueError"

\* dict.get(k, default)
Get(d, k, default) == IF k \in DOMAIN d THEN d[k] ELSE default

\* Python truthiness of an optional string
Truthy(v) == v # None /\ v # ""

\* ContextUpdate.create: the selected item enters ui_state only when truthy
ContextUpdate_create(screen, metadata, selected_item_id, selected_item_type) ==
  LET base == [screen |-> screen, metadata |-> metadata]
      ui_state ==
        IF Truthy(selected_item_id) /\ Truthy(selected_item_type)
          THEN [screen |-> screen, metadata |-> metadata,
                selected_item_id |-> selected_item_id,
                selected_item_type |-> selected_item_type]
        ELSE IF Truthy(selected_item_id)
          THEN [screen |-> screen, metadata |-> metadata,
                selected_item_id |-> selected_item_id]
        ELSE IF Truthy(selected_item_type)
          THEN [screen |-> screen, metadata |-> metadata,
                selected_item_type |-> selected_item_type]
        ELSE base
  IN [type |-> "context_update", screenshot |-> None, ui_state |-> ui_state,
      timestamp |-> Now]

\* UserMessage(content, conversation_id): the timestamp is filled in
UserMessage(content, conversation_id) ==
  [type |-> "user_message", content |-> content, conversation_id |-> conversation_id,
   timestamp |-> Now]

\* model_dump_json(): every declared field of the message is written, a field
\* holding None as null
model_dump_json(m) == [k \in DOMAIN m |-> m[k]]

\* the frames send_context writes to the engine connection
send_context_frames(screen, metadata, selected_item_id, selected_item_type) ==
  IF send_context_returns
    THEN <<model_dump_json(ContextUpdate_create(screen, metadata, selected_item_id,
                                                 selected_item_type))>>
    ELSE <<>>

\* the frames send_chat writes to the engine connection
send_chat_frames(content, conversation_id) ==
  IF send_chat_returns
    THEN <<model_dump_json(UserMessage(content, conversation_id))>>
    ELSE <<>>

\* ui_state objects a frontend sends
UiStates ==
  {[screen |-> s, metadata |-> "{poi}"] : s \in {"home", "poi_detail", "settings"}}
  \cup {[screen |-> "poi_detail", metadata |-> "{poi}", selected_item_id |-> i,
         selected_item_type |-> "poi"] : i \in {"", "poi-1"}}

\* JSON objects a frontend sends to the proxy
DownstreamRequests ==
  {[type |-> "context_update", ui_state |-> u] : u \in UiStates}
  \cup {[type |-> "context_update"],
        [type |-> "user_message"],
        [type |-> "user_message", content |-> "hello"],
        [type |-> "user_message", content |-> "hello", conversation_id |-> "c1"],
        [type |-> "ping"]}

\* one iteration of the proxy's loop over receive_json(): session k sent
\* data; last records the call made and the frames written to the engine
ProxyForward(k, data) ==
  /\ ppc[k] = "attached"
  /\ LET msg_type == Get(data, "type", None) IN
     IF msg_type = "context_update" THEN
       LET ui_state == Get(data, "ui_state", <<>>)
           screen == Get(ui_state, "screen", "home")
           metadata == Get(ui_state, "metadata", "{}")
           screen_enum == IF OmenScreen(screen) = "ValueError" THEN "home"
                          ELSE OmenScreen(screen)
       IN /\ last' = [op |-> "forward", session |-> k, request |-> data,
                      call |-> "send_context", value |-> send_context_returns,
                      sent |-> send_context_frames(screen_enum, metadata,
                                 Get(ui_state, "selected_item_id", None),
                                 Get(ui_state, "selected_item_type", None))]
          /\ UNCHANGED <<state, seen, hist>>
     ELSE IF msg_type = "user_message" THEN
       /\ IF ws = 0 THEN UNCHANGED <<state, seen>> ELSE update_state(send_chat_state(state))
       /\ hist' = IF ws = 0 THEN hist
                  ELSE [hist EXCEPT !.chat_text = <<>>,
                                    !.chat_phase = IF SendSucceeds THEN "streaming"
                                                   ELSE "none"]
       /\ last' = [op |-> "forward", session |-> k, request |-> data,
                   call |-> "send_chat", value |-> send_chat_returns,
                   sent |-> send_chat_frames(Get(data, "content", ""),
                                             Get(data, "conversation_id", None))]
     ELSE
       /\ last' = [op |-> "forward", session |-> k, request |-> data,
                   call |-> "none", sent |-> <<>>]
       /\ UNCHANGED <<state, seen, hist>>
  /\ UNCHANGED <<net, rx, rc, should_reconnect, amb, callers, proxy>>

\* ------------------------------------------------------------ claims
\* the k most recent elements of log, oldest first
MostRecent(log, k) == [j \in 1..k |-> log[Len(log) - k + j]]

\* C1: sidebar_insights never holds more than 5 insights, and after n sidebar
\* assistant_output events since the last clear_sidebar_insights() it is the
\* min(n, 5) most recent of them in emission order.
C1_SidebarKeepsMostRecent ==
  /\ Len(state.sidebar_insights) <= 5
  /\ state.sidebar_insights = MostRecent(hist.sidebar_log, Min(Len(hist.sidebar_log), 5))

\* seven sidebar insights arrived, the two oldest were evicted
C1_Witness ==
  /\ Len(hist.sidebar_log) = 7
  /\ state.sidebar_insights = <<3, 4, 5, 6, 7>>

\* how many copies of engine event e the frontend socket with inbox msgs got
Copies(msgs, e) ==
  Cardinality({j \in 1..Len(msgs) : msgs[j].type = "assistant_output" /\ msgs[j].content = e})

\* a broadcast of engine event e is still to run
InFlight(e) ==
  \E b \in BagToSet(btask) : b.message.type = "assistant_output" /\ b.message.content = e

\* C2: every inbound engine event is delivered exactly once to each frontend
\* session attached when it was dispatched and to no other session: no session
\* gets two copies, a session that was not attached gets none, and once the
\* broadcasts of the event have run every session that was attached and still
\* is holds its copy.
C2_EveryAttachedSessionReceives ==
  \A e \in 1..Len(hist.audience) : \A k \in Sessions :
    /\ Copies(inbox[k], e) <= 1
    /\ k \notin hist.audience[e] => Copies(inbox[k], e) = 0
    /\ (k \in hist.audience[e] /\ k \in Attached /\ ~InFlight(e)) => Copies(inbox[k], e) = 1

ExpectedDelays == <<5, 10, 20, 40, 60, 60, 60, 60, 60, 60>>

StartedReconnecting(i) == rtask[i] \in {"sleep", "connecting"}

\* C3: while open attempts keep failing, the delays slept before attempts
\* 1..10 are 5, 10, 20, 40, 60, 60, 60, 60, 60, 60 seconds, the counter being
\* incremented before each try; a _reconnect task whose 10th attempt failed
\* terminates, and while the counter stands at 10 no task starts another
\* attempt.
C3_BackoffSequence ==
  /\ [](/\ reconnect_attempts <= MAX_RECONNECT_ATTEMPTS
        /\ Len(hist.delays) = reconnect_attempts
        /\ \A j \in 1..Len(hist.delays) : hist.delays[j] = ExpectedDelays[j])
  /\ [][\A i \in Conns :
          /\ (rtask[i] # "sleep" /\ rtask'[i] = "sleep")
                => /\ reconnect_attempts' = reconnect_attempts + 1
                   /\ rdelay'[i] = ExpectedDelays[reconnect_attempts']
          /\ (rtask[i] = "connecting" /\ reconnect_attempts = MAX_RECONNECT_ATTEMPTS
                /\ rtask'[i] # "connecting") => rtask'[i] \in {"done", "cancel"}
          /\ (reconnect_attempts = MAX_RECONNECT_ATTEMPTS /\ StartedReconnecting(i)')
                => StartedReconnecting(i)]_vars

\* ten attempts failed in a row and the reconnect task gave up
C3_Witness ==
  /\ hist.delays = ExpectedDelays
  /\ reconnect_attempts = MAX_RECONNECT_ATTEMPTS
  /\ should_reconnect
  /\ reconnect_task # 0
  /\ rtask[reconnect_task] = "done"
  /\ ~state.is_connected

\* a task of the client that has not finished
ReceiveLoopAlive == \E i \in Conns : recv[i] \in {"new", "run", "cancel", "cancel_new"}
ReconnectAlive == \E i \in Conns : rtask[i] \in {"new", "sleep", "connecting", "cancel"}
AmbientTimerAlive == \E t \in Timers : atimer[t] = "pending"

\* C4: once disconnect() has returned (and until connect() is called again)
\* the read loop, the reconnect task and the ambient-clear timer have all
\* exited, so no background task is left that could still change the state.
C4_DisconnectStopsEveryTask ==
  hist.torn_down => ~ReceiveLoopAlive /\ ~ReconnectAlive /\ ~AmbientTimerAlive

\* C5: disconnect() leaves connected=false and ready=false, and a second
\* disconnect() called right after the first returned returns at once and
\* changes nothing the first one left.  It is stated for the callers of the
\* application, which call connect() on a client that holds no connection; a
\* connect() that completes while disconnect() is suspended is not a call
\* "in a row".
C5_DisconnectIdempotent ==
  /\ [](last.op = "disconnect" => ~state.is_connected /\ ~state.is_ready)
  /\ [][(last.op = "disconnect" /\ DisconnectCall)
          => /\ last'.op = "disconnect"
             /\ UNCHANGED <<state, net, rx, rc, should_reconnect, amb, proxy>>]_vars

\* disconnect() was called twice in a row on a client whose retries were
\* exhausted
C5_Witness ==
  /\ last.op = "disconnect"
  /\ last.again
  /\ reconnect_attempts = MAX_RECONNECT_ATTEMPTS
  /\ conn[1] = "closed"

\* C6: whenever connected=false, send_context and send_chat return false.
C6_SendsFailWhenDisconnected ==
  (last.op \in {"send_context", "send_chat"} /\ ~state.is_connected) => last.value = FALSE

\* the step just taken dispatched a frame of type ty
Dispatched(ty) == last.op = "frame" /\ last.frame.type = ty

\* C7: dispatching an engine_status frame leaves ready equal to
\* (fast_model_ready AND quality_model_ready) and changes no other field of
\* the state.
C7_ReadyIsConjunction ==
  [][\A i \in Conns : \A f \in StatusFrames :
       RecvFrame(i, f) =>
         /\ state'.is_ready = (f.fast_model_ready = TRUE /\ f.quality_model_ready = TRUE)
         /\ \A fld \in DOMAIN state \ {"is_ready"} : state'[fld] = state[fld]]_vars

\* one model ready, the other not: ready is false, and the fields the frame
\* must not touch hold values
C7_Witness ==
  /\ Dispatched("engine_status")
  /\ last.frame.fast_model_ready /\ ~last.frame.quality_model_ready
  /\ ~state.is_ready
  /\ Len(state.sidebar_insights) = 2
  /\ state.last_error # NoError

\* C8: after a successful send_chat, while stream_chunk frames are the only
\* chat events, chat_response is the concatenation of their contents and
\* is_streaming is true until the chunk with done=true and false after it;
\* every stream_chunk leaves is_streaming = NOT done.
C8_ChunksConcatenate ==
  /\ hist.chat_phase = "streaming" => state.chat_response = hist.chat_text /\ state.is_streaming
  /\ hist.chat_phase = "done" => state.chat_response = hist.chat_text /\ ~state.is_streaming
  /\ Dispatched("stream_chunk") => state.is_streaming = ~last.frame.done

\* two chunks were streamed and the second was the last
C8_Witness ==
  /\ hist.chat_phase = "done"
  /\ hist.chat_text = <<"a", "b">>
  /\ Dispatched("stream_chunk")
  /\ last.frame.content = <<"b">>

\* C9: an error frame sets is_streaming to false and last_error to the
\* frame's code and message and changes nothing else: is_connected keeps its
\* value, the read loop keeps running, no reconnect task is created and the
\* connection stays as it was.
C9_ErrorFrameIsNotFatal ==
  [][\A i \in Conns : \A f \in ErrorFrames :
       RecvFrame(i, f) =>
         /\ state' = [state EXCEPT !.is_streaming = FALSE,
                                   !.last_error = [code |-> f.code, message |-> f.message]]
         /\ recv'[i] = "run"
         /\ UNCHANGED <<ws, conn, rtask, reconnect_task, receive_task>>]_vars

\* an error frame arrived in the middle of a chat stream
C9_Witness ==
  /\ Dispatched("error")
  /\ hist.chat_text = <<"a">>
  /\ state.chat_response = <<"a">>
  /\ ~state.is_streaming
  /\ state.last_error = [code |-> last.frame.code, message |-> last.frame.message]
  /\ state.is_connected
  /\ recv[last.conn] = "run"

\* C10: at most one ambient-clear timer is pending and it is the one of the
\* latest ambient insight, due 5 seconds after that insight arrived; an
\* insight on display is the latest one and its timer is pending (a
\* superseded timer clears nothing); once 5 seconds have passed since the
\* last ambient insight and the timer has fired, ambient_message is empty.
C10_OneAmbientTimer ==
  /\ Cardinality({t \in Timers : atimer[t] = "pending"}) <= 1
  /\ \A t \in Timers : atimer[t] = "pending" =>
       t = ambient_clear_task /\ aleft[t] = AMBIENT_TTL - hist.age
  /\ state.ambient_message # 0 =>
       /\ state.ambient_message = ambient_clear_task
       /\ atimer[ambient_clear_task] = "pending"
  /\ (hist.age >= AMBIENT_TTL /\ ~AmbientTimerAlive) => state.ambient_message = 0

\* two insights within 5 seconds: the first timer was cancelled, the second
\* fired 5 seconds after the second insight
C10_Witness ==
  /\ atimer[1] = "cancelled"
  /\ atimer[2] = "done"
  /\ hist.age = AMBIENT_TTL
  /\ state.ambient_message = 0

\* the reconnect task made its 10th attempt, which failed, and returned
RetriesExhausted ==
  /\ reconnect_attempts = MAX_RECONNECT_ATTEMPTS
  /\ reconnect_task # 0
  /\ rtask[reconnect_task] = "done"
  /\ ~ReconnectAlive
  /\ ~ReceiveLoopAlive
  /\ ~state.is_connected

\* C11: once retries are exhausted the state a caller reads shows it: it
\* differs from the state a caller reads after a single failed connect() on a
\* new client, and from the one after an ordinary disconnect().
C11_ExhaustionIsVisible ==
  RetriesExhausted =>
    /\ state # connect_failed(OmenState)
    /\ state # [OmenState EXCEPT !.is_connected = FALSE, !.is_ready = FALSE]

\* C12: when the stream of a connected client ends unexpectedly, is_connected
\* and is_ready become false and a reconnect task is created, unless shutdown
\* was requested (_should_reconnect is false): then none is created.
C12_StreamEndSchedulesReconnect ==
  [][\A i \in Conns :
       (RecvClosed(i) /\ state.is_connected) =>
         /\ ~state'.is_connected
         /\ ~state'.is_ready
         /\ IF should_reconnect
              THEN rtask[i] = "none" /\ rtask'[i] = "new" /\ reconnect_task' = i
              ELSE UNCHANGED <<rtask, reconnect_task>>]_vars

\* the second stream ended after shutdown had been requested and no reconnect
\* task was created for it; the end of the first one had created one
C12_Witness ==
  /\ last.op = "closed"
  /\ ~should_reconnect
  /\ rtask[last.conn] = "none"
  /\ \E j \in Conns : rtask[j] = "done"

\* C13: a connect() whose open attempt fails returns false with is_connected
\* and is_ready false, creates neither a read task nor a reconnect task and
\* leaves the attempt counter alone; on a client that never held a connection
\* no task exists, so nothing retries until connect() is called again.
C13_FailedConnectStartsNothing ==
  /\ []((\A i \in Conns : conn[i] = "unborn") => ~ReceiveLoopAlive /\ ~ReconnectAlive)
  /\ [][ConnectFail =>
          /\ last' = [op |-> "connect", value |-> FALSE]
          /\ ~state'.is_connected
          /\ ~state'.is_ready
          /\ UNCHANGED <<ws, conn, rx, rc>>]_vars

\* the first connect() of a client failed
C13_Witness ==
  /\ last = [op |-> "connect", value |-> FALSE]
  /\ \A i \in Conns : conn[i] = "unborn"
  /\ cpc = "idle"
  /\ ~ReceiveLoopAlive
  /\ ~ReconnectAlive

\* frames that are not JSON, or JSON of a type the client does not know
DroppedFrames == {[type |-> "invalid_json"], [type |-> "unknown"]}

\* C14: a frame that is not valid JSON, or whose type is none of
\* engine_status, assistant_output, stream_chunk and error, is dropped: no
\* field of the state changes, the read loop keeps running, no reconnect task
\* is created and the connection stays as it was.
C14_JunkFramesAreDropped ==
  [][\A i \in Conns : \A f \in DroppedFrames :
       RecvFrame(i, f) =>
         /\ state' = state
         /\ recv'[i] = "run"
         /\ UNCHANGED <<ws, conn, receive_task, rtask, reconnect_task, reconnect_attempts>>]_vars

\* a frame of an unknown type arrived on a ready client that shows insights
\* and an error
C14_Witness ==
  /\ Dispatched("unknown")
  /\ state.is_connected
  /\ state.is_ready
  /\ Len(state.sidebar_insights) = 2
  /\ state.last_error # NoError
  /\ recv[last.conn] = "run"

\* C15: the first message a frontend session is sent is an engine_status
\* frame whose fast_model_ready and quality_model_ready both equal is_ready of
\* the client at that moment; no forwarded engine event precedes it.
C15_GreetingComesFirst ==
  /\ [](\A k \in Sessions : inbox[k] # <<>> =>
          /\ inbox[k][1].type = "engine_status"
          /\ inbox[k][1].fast_model_ready = inbox[k][1].quality_model_ready)
  /\ [][\A k \in Sessions :
          ProxyAccepted(k) =>
            /\ inbox[k] = <<>>
            /\ inbox'[k] = <<[type |-> "engine_status", fast_model_ready |-> state.is_ready,
                              quality_model_ready |-> state.is_ready]>>]_vars

\* a session that attached to a ready client was told so, and then received
\* a forwarded insight
C15_Witness ==
  \E k \in Sessions :
    /\ Len(inbox[k]) = 2
    /\ inbox[k][1] = [type |-> "engine_status", fast_model_ready |-> TRUE,
                      quality_model_ready |-> TRUE]
    /\ inbox[k][2].type = "assistant_output"

\* the object holding the request fields of a frontend message or of a frame
RequestFields(m) ==
  IF m.type = "context_update" THEN Get(m, "ui_state", <<>>) ELSE m

\* the names of the request fields of a message type
RequestFieldNames(ty) ==
  IF ty = "context_update"
    THEN {"screen", "metadata", "selected_item_id", "selected_item_type"}
    ELSE {"content", "conversation_id"}

Relayed == last.op = "forward" /\ last.call # "none"

\* C16: every context_update or user_message from an attached session puts
\* exactly one frame on the engine connection, with the same type and the
\* same request fields as the session sent.
C16_ForwardIsPassThrough ==
  Relayed =>
    /\ Len(last.sent) = 1
    /\ last.sent[1].type = last.request.type
    /\ \A f \in RequestFieldNames(last.request.type) \cap DOMAIN RequestFields(last.request) :
         /\ f \in DOMAIN RequestFields(last.sent[1])
         /\ RequestFields(last.sent[1])[f] = RequestFields(last.request)[f]

\* C17: when relaying a request of session S fails, S is told so (and no
\* other session is).
C17_FailureReportedToOriginator ==
  [][(Relayed' /\ ~last'.value) =>
       /\ Len(inbox'[last'.session]) = Len(inbox[last'.session]) + 1
       /\ \A k \in Sessions \ {last'.session} : inbox'[k] = inbox[k]]_vars

C19_ContextFrameHasNoNull ==
  (last.op = "forward" /\ last.call = "send_context" /\ last.sent # <<>>) =>
    LET frame == last.sent[1] IN
      /\ frame.timestamp = Now
      /\ \A k \in DOMAIN frame \ {"ui_state"} : frame[k] # None
      /\ \A k \in DOMAIN frame.ui_state : frame.ui_state[k] # None

\* C20: clear_sidebar_insights() empties sidebar_insights and
\* clear_ambient_message() empties ambient_message, from any state; each
\* leaves every other field of the state unchanged.
C20_ClearsTouchOneField ==
  [][/\ ClearSidebar =>
          /\ state'.sidebar_insights = <<>>
          /\ \A f \in DOMAIN state \ {"sidebar_insights"} : state'[f] = state[f]
     /\ ClearAmbient =>
          /\ state'.ambient_message = 0
          /\ \A f \in DOMAIN state \ {"ambient_message"} : state'[f] = state[f]]_vars

\* the sidebar was cleared while every other field held something
C20_Witness ==
  /\ last.op = "clear_sidebar"
  /\ hist.sidebar_count > 0
  /\ state.sidebar_insights = <<>>
  /\ state.ambient_message # 0
  /\ state.chat_response # <<>>
  /\ state.is_streaming
  /\ state.is_ready
  /\ state.last_error # NoError

\* C21: under every interleaving, connect() while connected or while a
\* reconnect is in flight included, there is at most one live read loop, at
\* most one in-flight reconnect task and at most one pending ambient timer.
C21_AtMostOneOfEach ==
  /\ Cardinality({i \in Conns : recv[i] \in {"new", "run"}}) <= 1
  /\ Cardinality({i \in Conns : rtask[i] \in {"new", "sleep", "connecting"}}) <= 1
  /\ Cardinality({t \in Timers : atimer[t] = "pending"}) <= 1

\* C22: no inbound frame, whatever its content (a frame of a known type
\* whose fields are missing or ill-typed included), ends the read loop, sets
\* is_connected false or schedules a reconnect: the connection survives.
C22_NoFrameEndsTheLoop ==
  [][\A i \in Conns : \A f \in StatusFrames \cup SidebarFrames \cup ErrorFrames \cup JunkFrames :
      
       RecvFrame(i, f) =>
         /\ recv'[i] = "run"
         /\ state'.is_connected = state.is_connected
         /\ UNCHANGED <<rtask, reconnect_task>>]_vars

IsPrefix(a, b) == Len(a) <= Len(b) /\ SubSeq(b, 1, Len(a)) = a

\* C23: between a chat send and the terminal stream_chunk of that chat,
\* chat_response only grows: every value extends the one before, whatever
\* inbound events and send_chat calls of other callers are interleaved.
C23_ChatBufferOnlyGrows ==
  [][hist.chat_phase = "streaming" =>
       IsPrefix(state.chat_response, state'.chat_response)]_vars

\* C24: every mutation of the state is followed, within the mutating step,
\* by a notification of the registered observer that carries the full state
\* as it is after the mutation; no state change goes unnotified.
C24_EveryMutationIsNotified ==
  /\ [](seen = <<>> => state = OmenState)
  /\ [](seen # <<>> => seen[1] = state)
  /\ [][state' # state => seen' = <<state'>>]_vars

\* the observer holds a state that a handler, a send, a timer and the
\* teardown of the read loop have all written to
C24_Witness ==
  /\ seen = <<state>>
  /\ ~state.is_connected
  /\ state.is_streaming
  /\ state.last_error # NoError
  /\ state.sidebar_insights # <<>>
  /\ \E t \in Timers : atimer[t] = "done"

\* C25: the reconnect attempt counter is between 0 and 10 in every reachable
\* state, every backoff delay is at most 60 seconds, and right after any
\* successful open, by connect() or by the reconnect task, the counter is 0.
C25_CounterBoundedAndReset ==
  /\ [](/\ reconnect_attempts \in 0 .. MAX_RECONNECT_ATTEMPTS
        /\ \A i \in Conns : rdelay[i] <= MAX_DELAY
        /\ \A j \in 1 .. Len(hist.delays) : hist.delays[j] <= MAX_DELAY)
  /\ [][(ConnectOk \/ \E i \in Conns : ReconnectOk(i)) =>
          /\ reconnect_attempts' = 0
          /\ state'.is_connected]_vars

\* the reconnect task reopened the connection and the counter is back at 0
C25_Witness ==
  /\ reconnect_attempts = 0
  /\ rtask[1] = "done"
  /\ ws = 2
  /\ recv[2] = "new"
  /\ last = Silent
  /\ state.is_connected

\* C26: in every reachable state is_ready implies is_connected, under any
\* interleaving of connect(), disconnect(), stream ends, reconnects and
\* engine_status frames.
C26_ReadyImpliesConnected == state.is_ready => state.is_connected

\* C27: a send_chat that returns False leaves chat_response exactly as it
\* was before the call, also when the stream has ended and the client still
\* holds the stale connection.
C27_FailedSendKeepsBuffer ==
  [][(SendChat /\ ~send_chat_returns) =>
       state'.chat_response = state.chat_response]_vars

\* C28: whenever is_connected is false, is_streaming is false: a chat in
\* flight when the stream ends or disconnect() is called is not left marked
\* as streaming.
C28_NotConnectedNotStreaming == ~state.is_connected => ~state.is_streaming

\* C29: once every frontend session that attached has detached, in any
\* order, the client's message callback is back to the value it had before
\* the first attach (none) and references no detached session.
C29_CallbackRestoredAfterDetach ==
  (\A k \in Sessions : ppc[k] # "attached") => on_message = 0

\* C30: after disconnect() and a successful explicit connect() on the same
\* client, automatic recovery is active again: an unexpected end of the
\* stream of the new connection schedules a reconnect task.
C30_ConnectRearmsRecovery ==
  [][\A i \in Conns :
       (RecvClosed(i) /\ dpc = "idle" /\ i = ws) =>
         /\ rtask'[i] = "new"
         /\ reconnect_task' = i]_vars

\* ------------------------------------------------------------ specifications
\* The connection supervisor: every lifecycle step of the client, under the
\* frames that matter to the lifecycle (readiness, and a frame whose handler
\* raises), with callers that connect and disconnect at any moment, also
\* while a connection is held or a reconnect is in flight.
LifecycleFrames == StatusFrames \cup {[type |-> "malformed"]}

Next ==
  \/ ConnectCall
  \/ ConnectOk
  \/ ConnectFail
  \/ \E i \in Conns : RecvStart(i)
  \/ \E i \in Conns : \E f \in LifecycleFrames : RecvFrame(i, f)
  \/ \E i \in Conns : ConnLost(i)
  \/ \E i \in Conns : RecvClosed(i)
  \/ \E i \in Conns : RecvConcurrent(i)
  \/ \E i \in Conns : RecvCancelled(i)
  \/ \E i \in Conns : ReconnectStart(i)
  \/ \E i \in Conns : ReconnectWake(i)
  \/ \E i \in Conns : ReconnectOk(i)
  \/ \E i \in Conns : ReconnectFail(i)
  \/ \E i \in Conns : ReconnectCancelled(i)
  \/ DisconnectCall
  \/ DisconnectReceiveAwaited
  \/ DisconnectReconnectAwaited
  \/ DisconnectClosed

Spec == Init /\ [][Next]_vars

\* The client left running: connections are lost and reopened, by the
\* reconnect task and by callers of connect(), and nobody shuts it down.
NextRunning ==
  \/ ConnectCall
  \/ ConnectOk
  \/ ConnectFail
  \/ \E i \in Conns : RecvStart(i)
  \/ \E i \in Conns : \E f \in LifecycleFrames : RecvFrame(i, f)
  \/ \E i \in Conns : ConnLost(i)
  \/ \E i \in Conns : RecvClosed(i)
  \/ \E i \in Conns : RecvConcurrent(i)
  \/ \E i \in Conns : ReconnectStart(i)
  \/ \E i \in Conns : ReconnectWake(i)
  \/ \E i \in Conns : ReconnectOk(i)
  \/ \E i \in Conns : ReconnectFail(i)

SpecRunning == Init /\ [][NextRunning]_vars

\* The lifecycle as the application drives it: connect() is called on a
\* client that holds no connection (init_omen_client builds the client and
\* connects it once; close_omen_client disconnects it), everything else as
\* above.
StartupConnect == ws = 0 /\ ConnectCall

Managed ==
  \/ StartupConnect
  \/ ConnectOk
  \/ ConnectFail
  \/ \E i \in Conns : RecvStart(i)
  \/ \E i \in Conns : ConnLost(i)
  \/ \E i \in Conns : RecvClosed(i)
  \/ \E i \in Conns : RecvCancelled(i)
  \/ \E i \in Conns : ReconnectStart(i)
  \/ \E i \in Conns : ReconnectWake(i)
  \/ \E i \in Conns : ReconnectOk(i)
  \/ \E i \in Conns : ReconnectFail(i)
  \/ \E i \in Conns : ReconnectCancelled(i)
  \/ DisconnectCall
  \/ DisconnectReceiveAwaited
  \/ DisconnectReconnectAwaited
  \/ DisconnectClosed

\* Callers that send context updates and chat messages at any moment of the
\* lifecycle.
NextSend ==
  \/ Managed
  \/ \E i \in Conns : \E f \in LifecycleFrames : RecvFrame(i, f)
  \/ SendContext
  \/ SendChat

SpecSend == Init /\ [][NextSend]_vars

\* Ambient insights and their auto-clear timer, with time.
NextAmbient ==
  \/ Managed
  \/ \E i \in Conns : \E f \in AmbientFrames : RecvFrame(i, f)
  \/ ClearAmbient
  \/ Tick
  \/ \E t \in Timers : AmbientFire(t)

SpecAmbient == Init /\ [][NextAmbient]_vars

\* Event dispatch into the sidebar, readiness and error fields, and frames
\* the client must drop.
DispatchFrames == StatusFrames \cup SidebarFrames \cup ErrorFrames \cup JunkFrames

NextDispatch ==
  \/ Managed
  \/ \E i \in Conns : \E f \in DispatchFrames : RecvFrame(i, f)
  \/ ClearSidebar

SpecDispatch == Init /\ [][NextDispatch]_vars

\* Chat: callers send chat messages and the engine streams the answer,
\* interleaved with every other frame that touches the chat fields.
StreamFrames == ChunkFrames \cup ChatFrames \cup ErrorFrames \cup JunkFrames

NextChat ==
  \/ Managed
  \/ \E i \in Conns : \E f \in StreamFrames : RecvFrame(i, f)
  \/ SendChat

SpecChat == Init /\ [][NextChat]_vars

\* Frontend sessions attach to and detach from the proxy of a client whose
\* connection stays up; the engine reports its readiness while no frontend
\* callback is installed and emits insights at any moment.
AttachFrames == EventFrames \cup (IF on_message = 0 THEN StatusFrames ELSE {})

NextAttach ==
  \/ StartupConnect
  \/ ConnectOk
  \/ ConnectFail
  \/ \E i \in Conns : RecvStart(i)
  \/ \E i \in Conns : \E f \in AttachFrames : RecvFrame(i, f)
  \/ \E k \in Sessions : ProxyOpen(k)
  \/ \E k \in Sessions : ProxyAccepted(k)
  \/ \E k \in Sessions : ProxyAttached(k)
  \/ \E k \in Sessions : ProxyDetach(k)
  \/ \E b \in BagToSet(btask) : BroadcastRun(b)

SpecAttach == Init /\ [][NextAttach]_vars

\* Everything that writes to the state: connect, disconnect, the teardown of
\* the read loop, every handler, send_chat, the clear operations and the
\* ambient timer, on a connection that is not lost.
ObserveFrames ==
  {[type |-> "engine_status", fast_model_ready |-> TRUE, quality_model_ready |-> TRUE]}
  \cup {f \in ErrorFrames : f.code = "internal"}
  \cup {f \in ChunkFrames : f.content = <<"a">>}
  \cup {f \in AmbientFrames \cup EventFrames : f.content = 1}

NextObserve ==
  \/ StartupConnect
  \/ ConnectOk
  \/ ConnectFail
  \/ \E i \in Conns : RecvStart(i)
  \/ \E i \in Conns : \E f \in ObserveFrames : RecvFrame(i, f)
  \/ \E i \in Conns : RecvCancelled(i)
  \/ DisconnectCall
  \/ DisconnectReceiveAwaited
  \/ DisconnectClosed
  \/ SendChat
  \/ ClearSidebar
  \/ ClearAmbient
  \/ Tick
  \/ \E t \in Timers : AmbientFire(t)

SpecObserve == Init /\ [][NextObserve]_vars

\* POST /chat requests wait for the answer the engine streams; the event loop
\* wakes a sleeping request, which is the fairness of ChatPoll.
NextChatWait ==
  \/ StartupConnect
  \/ ConnectOk
  \/ ConnectFail
  \/ \E i \in Conns : RecvStart(i)
  \/ \E i \in Conns : \E f \in StreamFrames : RecvFrame(i, f)
  \/ \E timeout \in Timeouts : ChatEndpointCall(timeout)
  \/ ChatPoll

SpecChatWait == Init /\ [][NextChatWait]_vars /\ WF_vars(ChatPoll)

\* Callers clear the sidebar and the ambient message while the engine fills
\* every field of the state.
ClearFrames == StatusFrames \cup SidebarFrames \cup AmbientFrames \cup ChunkFrames
               \cup ErrorFrames

NextClear ==
  \/ StartupConnect
  \/ ConnectOk
  \/ ConnectFail
  \/ \E i \in Conns : RecvStart(i)
  \/ \E i \in Conns : \E f \in ClearFrames : RecvFrame(i, f)
  \/ ClearSidebar
  \/ ClearAmbient

SpecClear == Init /\ [][NextClear]_vars

\* Attached frontend sessions send requests while the engine connection may
\* be lost.
NextForward ==
  \/ StartupConnect
  \/ ConnectOk
  \/ ConnectFail
  \/ \E i \in Conns : RecvStart(i)
  \/ \E i \in Conns : ConnLost(i)
  \/ \E i \in Conns : RecvClosed(i)
  \/ \E k \in Sessions : ProxyOpen(k)
  \/ \E k \in Sessions : ProxyAccepted(k)
  \/ \E k \in Sessions : ProxyAttached(k)
  \/ \E k \in Sessions : ProxyDetach(k)
  \/ \E k \in Sessions : \E data \in DownstreamRequests : ProxyForward(k, data)

SpecForward == Init /\ [][NextForward]_vars

\* Frontend sessions attach to and detach from the proxy in any order while
\* the engine emits events.
NextProxy ==
  \/ Managed
  \/ \E i \in Conns : \E f \in EventFrames : RecvFrame(i, f)
  \/ \E k \in Sessions : ProxyOpen(k)
  \/ \E k \in Sessions : ProxyAccepted(k)
  \/ \E k \in Sessions : ProxyAttached(k)
  \/ \E k \in Sessions : ProxyDetach(k)
  \/ \E b \in BagToSet(btask) : BroadcastRun(b)

SpecProxy == Init /\ [][NextProxy]_vars
====
